---- MODULE Spec2Model ----
(***************************************************************************)
(* Model of the TuringMachine class of turing-machine-app.py and of its    *)
(* three example machines.  One TuringMachine instance is constructed      *)
(* (Init) and then run any number of times; every loop iteration of run    *)
(* is one action.  A second instance, fresh, is constructed anew for       *)
(* every run and advanced in lock-step, so that a run on the reused        *)
(* instance can be compared with the same run on a new instance.           *)
(***************************************************************************)
EXTENDS Integers, Sequences, FiniteSets, TLC

VARIABLES
    states, alphabet, delta, start_state, accept_state, reject_state,
    blank_symbol, description, max_steps,   \* the definition (set by __init__)
    tape, head_position, current_state,     \* run-time fields of the instance
    input_string, step_count, out,          \* arguments/locals of run; out = lines sent to output_callback
    pc, result,                             \* position of run and its outcome
    fresh,                                  \* the same run on a newly constructed instance
    runs,                                   \* number of run calls made on the instance
    earlier                                 \* outcomes of the runs completed before the current one

defvars == <<states, alphabet, delta, start_state, accept_state, reject_state,
             blank_symbol, description, max_steps>>
runvars == <<tape, head_position, current_state, step_count, out, pc, result>>
vars == <<defvars, runvars, input_string, fresh, runs, earlier>>

\* ---------------------------------------------------------------- bounds
MaxABLen == 8
MaxBinLen == 4
MaxRuns == 2
MaxReuseLen == 2

\* ------------------------------------------------------- small utilities
Min(S) == CHOOSE x \in S : \A y \in S : x <= y
Max(S) == CHOOSE x \in S : \A y \in S : x >= y

RECURSIVE StringsOver(_, _)
StringsOver(A, n) ==
    IF n = 0 THEN {<<>>}
    ELSE LET shorter == StringsOver(A, n - 1)
         IN  shorter \cup {Append(s, c) : s \in {t \in shorter : Len(t) = n - 1}, c \in A}

EmptyTape == [i \in {} |-> "B"]

\* self.max_steps = 1000
DefaultMaxSteps == 1000

\* ------------------------------------------------ the example machines
Q1 == {"q0", "q_accept", "q_reject"}
Sigma1 == {"0", "1", "B"}
Delta1 ==
    (<<"q0", "1">> :> <<"q_accept", "0", "R">>) @@
    (<<"q0", "0">> :> <<"q0", "0", "R">>) @@
    (<<"q0", "B">> :> <<"q_reject", "B", "N">>)

Q2 == {"q0", "q1", "q2", "q3", "q_accept", "q_reject"}
Sigma2 == {"a", "b", "X", "Y", "B"}
\* Delta2 with the check for a "b" after the matched block accepting.
Delta2_accepts_trailing_b ==
    (<<"q0", "a">> :> <<"q1", "X", "R">>) @@
    (<<"q0", "Y">> :> <<"q3", "Y", "R">>) @@
    (<<"q0", "B">> :> <<"q_reject", "B", "N">>) @@
    (<<"q0", "X">> :> <<"q0", "X", "R">>) @@
    (<<"q1", "a">> :> <<"q1", "a", "R">>) @@
    (<<"q1", "Y">> :> <<"q1", "Y", "R">>) @@
    (<<"q1", "b">> :> <<"q2", "Y", "L">>) @@
    (<<"q1", "X">> :> <<"q1", "X", "R">>) @@
    (<<"q1", "B">> :> <<"q_reject", "B", "N">>) @@
    (<<"q2", "a">> :> <<"q2", "a", "L">>) @@
    (<<"q2", "Y">> :> <<"q2", "Y", "L">>) @@
    (<<"q2", "X">> :> <<"q0", "X", "R">>) @@
    (<<"q2", "B">> :> <<"q_reject", "B", "N">>) @@
    (<<"q3", "Y">> :> <<"q3", "Y", "R">>) @@
    (<<"q3", "B">> :> <<"q_accept", "B", "N">>) @@
    (<<"q3", "a">> :> <<"q_reject", "a", "N">>) @@
    (<<"q3", "b">> :> <<"q_accept", "b", "N">>)

Delta2 ==
    (<<"q0", "a">> :> <<"q1", "X", "R">>) @@
    (<<"q0", "Y">> :> <<"q3", "Y", "R">>) @@
    (<<"q0", "B">> :> <<"q_reject", "B", "N">>) @@
    (<<"q0", "X">> :> <<"q0", "X", "R">>) @@
    (<<"q1", "a">> :> <<"q1", "a", "R">>) @@
    (<<"q1", "Y">> :> <<"q1", "Y", "R">>) @@
    (<<"q1", "b">> :> <<"q2", "Y", "L">>) @@
    (<<"q1", "X">> :> <<"q1", "X", "R">>) @@
    (<<"q1", "B">> :> <<"q_reject", "B", "N">>) @@
    (<<"q2", "a">> :> <<"q2", "a", "L">>) @@
    (<<"q2", "Y">> :> <<"q2", "Y", "L">>) @@
    (<<"q2", "X">> :> <<"q0", "X", "R">>) @@
    (<<"q2", "B">> :> <<"q_reject", "B", "N">>) @@
    (<<"q3", "Y">> :> <<"q3", "Y", "R">>) @@
    (<<"q3", "B">> :> <<"q_accept", "B", "N">>) @@
    (<<"q3", "a">> :> <<"q_reject", "a", "N">>) @@
    (<<"q3", "b">> :> <<"q_reject", "b", "N">>)

Q3 == {"q0", "q1", "q_carry", "q_accept", "q_reject"}
Sigma3 == {"0", "1", "B"}
\* Delta3 with the carry leaving the "1" it passes in place.
Delta3_keeps_ones ==
    (<<"q0", "0">> :> <<"q0", "0", "R">>) @@
    (<<"q0", "1">> :> <<"q0", "1", "R">>) @@
    (<<"q0", "B">> :> <<"q_carry", "B", "L">>) @@
    (<<"q_carry", "1">> :> <<"q_carry", "1", "L">>) @@
    (<<"q_carry", "0">> :> <<"q_accept", "1", "N">>) @@
    (<<"q_carry", "B">> :> <<"q_accept", "1", "N">>)

Delta3 ==
    (<<"q0", "0">> :> <<"q0", "0", "R">>) @@
    (<<"q0", "1">> :> <<"q0", "1", "R">>) @@
    (<<"q0", "B">> :> <<"q_carry", "B", "L">>) @@
    (<<"q_carry", "1">> :> <<"q_carry", "0", "L">>) @@
    (<<"q_carry", "0">> :> <<"q_accept", "1", "N">>) @@
    (<<"q_carry", "B">> :> <<"q_accept", "1", "N">>)

\* The arguments of one constructor call.
Args(Q, Sigma, Delta, start, accept, reject, desc) ==
    [states |-> Q, alphabet |-> Sigma, transition_function |-> Delta,
     start_state |-> start, accept_state |-> accept, reject_state |-> reject,
     blank_symbol |-> "B", description |-> desc]

tm_replace_one ==
    Args(Q1, Sigma1, Delta1, "q0", "q_accept", "q_reject", "Replace First '1' with '0'")
tm_anbn ==
    Args(Q2, Sigma2, Delta2, "q0", "q_accept", "q_reject", "Accepts L={a^n b^n}")
tm_bin_increment ==
    Args(Q3, Sigma3, Delta3, "q0", "q_accept", "q_reject", "Binary Incrementer (+1)")

\* Further constructor calls the class accepts: __init__ stores its
\* arguments and checks none of them.
QG == {"q0", "q1", "q_accept", "q_reject"}
SigmaG == {"0", "1", "B"}
\* never halts on the empty input
DeltaLoop ==
    (<<"q0", "B">> :> <<"q1", "B", "R">>) @@
    (<<"q1", "B">> :> <<"q0", "B", "L">>) @@
    (<<"q0", "0">> :> <<"q_accept", "1", "L">>)
\* names a next state outside states
DeltaStray ==
    (<<"q0", "B">> :> <<"q9", "1", "R">>) @@
    (<<"q0", "0">> :> <<"q0", "0", "R">>) @@
    (<<"q0", "1">> :> <<"q_accept", "1", "L">>)
\* names a move other than L, R, N
DeltaBadMove ==
    (<<"q0", "B">> :> <<"q1", "1", "R">>) @@
    (<<"q1", "B">> :> <<"q0", "0", "S">>) @@
    (<<"q0", "1">> :> <<"q_accept", "1", "N">>)
\* used with accept_state = reject_state
DeltaHalt ==
    (<<"q0", "0">> :> <<"q0", "1", "R">>) @@
    (<<"q0", "1">> :> <<"q_halt", "1", "N">>)

tm_loop == Args(QG, SigmaG, DeltaLoop, "q0", "q_accept", "q_reject", "Loop")
tm_accept_start ==
    Args(QG, SigmaG, DeltaLoop, "q_accept", "q_accept", "q_reject", "Start in accept")
tm_reject_start ==
    Args(QG, SigmaG, DeltaLoop, "q_reject", "q_accept", "q_reject", "Start in reject")
tm_same_halt ==
    Args({"q0", "q_halt"}, SigmaG, DeltaHalt, "q0", "q_halt", "q_halt", "One halting state")
tm_foreign_accept ==
    Args({"q0", "q_reject"}, SigmaG, DeltaStray, "q0", "q_accept", "q_reject", "Accept state not in states")
tm_bad_move ==
    Args(QG, SigmaG, DeltaBadMove, "q0", "q_accept", "q_reject", "Bad move")

tm_stray_next ==
    Args(QG, SigmaG, DeltaStray, "q0", "q_accept", "q_reject", "Next state not in states")

Definitions ==
    {tm_replace_one, tm_anbn, tm_bin_increment, tm_loop, tm_accept_start,
     tm_reject_start, tm_same_halt, tm_foreign_accept, tm_bad_move, tm_stray_next}

\* Constructor calls whose states are numbers: on the empty input the chain
\* 0 -> 1 -> ... applies exactly max_steps transitions and is then in the
\* state of that number, which is the accept state, the reject state, or a
\* state without any transition.
LastStep == DefaultMaxSteps
ChainStates == 0 .. LastStep + 2
ChainDelta ==
    [k \in {<<i, "B">> : i \in 0 .. LastStep - 1} |-> <<k[1] + 1, "B", "N">>]
tm_chain_accept ==
    Args(ChainStates, {"B"}, ChainDelta, 0, LastStep, LastStep + 1, "Accepts on the last step")
tm_chain_reject ==
    Args(ChainStates, {"B"}, ChainDelta, 0, LastStep + 1, LastStep, "Rejects on the last step")
tm_chain_stuck ==
    Args(ChainStates, {"B"}, ChainDelta, 0, LastStep + 1, LastStep + 2, "Stuck after the last step")
ChainDefinitions == {tm_chain_accept, tm_chain_reject, tm_chain_stuck}

\* The strings given to run: every string over {a, b} and over {0, 1} up to
\* the bounds for the first run of an instance, the short ones for later runs.
Inputs == StringsOver({"a", "b"}, MaxABLen) \cup StringsOver({"0", "1"}, MaxBinLen)
ReuseInputs == {w \in Inputs : Len(w) <= MaxReuseLen}


\* ------------------------------------------------ methods of TuringMachine
\* A run-time record m holds tape, head_position, current_state of an
\* instance and step_count, out, pc, result of its call of run.

\* __init__: the run-time part of a newly constructed instance.
NewInstance(start) ==
    [tape |-> EmptyTape, head_position |-> 0, current_state |-> start,
     step_count |-> 0, out |-> <<>>, pc |-> "idle", result |-> <<>>]

\* self.tape[i] on the defaultdict: a missing key is inserted with the blank.
TapeRead(t, i) ==
    IF i \in DOMAIN t
    THEN [value |-> t[i], tape |-> t]
    ELSE [value |-> blank_symbol, tape |-> (i :> blank_symbol) @@ t]

\* self.tape[i] = symbol
TapeWrite(t, i, symbol) == (i :> symbol) @@ t

\* for i, symbol in enumerate(input_string): self.tape[i] = symbol
WriteInput(t, input) ==
    [i \in DOMAIN t \cup (0 .. Len(input) - 1) |->
        IF i \in 0 .. Len(input) - 1 THEN input[i + 1] ELSE t[i]]

\* initialize_tape without self.tape.clear()
initialize_tape_keeps_cells(m, input) ==
    [m EXCEPT !.tape = WriteInput(m.tape, input),
              !.head_position = 0,
              !.current_state = start_state]

initialize_tape(m, input) ==
    [m EXCEPT !.tape = WriteInput(EmptyTape, input),
              !.head_position = 0,
              !.current_state = start_state]

get_current_symbol(m) == TapeRead(m.tape, m.head_position)

Raise(m, exception) == [m EXCEPT !.pc = "raised", !.result = exception]

\* move_head with the N branch falling into the R branch
move_head_stay_moves(m, move) ==
    IF move \in {"R", "N"} THEN [m EXCEPT !.head_position = @ + 1]
    ELSE IF move = "L" THEN [m EXCEPT !.head_position = @ - 1]
    ELSE Raise(m, <<"ValueError", "Invalid move direction", move>>)

\* move_head with the else branch passing instead of raising
move_head_ignores_unknown(m, move) ==
    IF move = "R" THEN [m EXCEPT !.head_position = @ + 1]
    ELSE IF move = "L" THEN [m EXCEPT !.head_position = @ - 1]
    ELSE m

move_head(m, move) ==
    IF move = "R" THEN [m EXCEPT !.head_position = @ + 1]
    ELSE IF move = "L" THEN [m EXCEPT !.head_position = @ - 1]
    ELSE IF move = "N" THEN m
    ELSE Raise(m, <<"ValueError", "Invalid move direction", move>>)

\* Reading every cell of the window through the defaultdict inserts the
\* cells of the window that were missing.
RECURSIVE ReadWindow(_, _, _)
ReadWindow(t, from, to) ==
    IF from >= to THEN t ELSE ReadWindow(TapeRead(t, from).tape, from + 1, to)

\* get_tape_string with the window of the stored cells only, the head left out
get_tape_string_stored_only(m) ==
    IF DOMAIN m.tape = {}
    THEN [ret |-> <<blank_symbol>>, tape |-> m.tape]
    ELSE LET tape_start == Min(DOMAIN m.tape)
             tape_end == Max(DOMAIN m.tape) + 1
         IN  [ret |-> <<[k \in 1 .. (tape_end - tape_start) |->
                           TapeRead(m.tape, tape_start + k - 1).value],
                        m.head_position - tape_start, tape_start>>,
              tape |-> ReadWindow(m.tape, tape_start, tape_end)]

\* get_tape_string with head_offset = head_position, tape_start not subtracted
get_tape_string_offset_from_origin(m) ==
    IF DOMAIN m.tape = {}
    THEN [ret |-> <<blank_symbol>>, tape |-> m.tape]
    ELSE LET min_pos == Min(DOMAIN m.tape)
             max_pos == Max(DOMAIN m.tape)
             tape_start == IF min_pos <= m.head_position THEN min_pos ELSE m.head_position
             tape_end == (IF max_pos >= m.head_position THEN max_pos ELSE m.head_position) + 1
         IN  [ret |-> <<[k \in 1 .. (tape_end - tape_start) |->
                           TapeRead(m.tape, tape_start + k - 1).value],
                        m.head_position, tape_start>>,
              tape |-> ReadWindow(m.tape, tape_start, tape_end)]

\* ret is the value returned: the blank symbol alone (a string of one
\* character) for an empty tape, else (tape string, head_offset, tape_start).
get_tape_string(m) ==
    IF DOMAIN m.tape = {}
    THEN [ret |-> <<blank_symbol>>, tape |-> m.tape]
    ELSE LET min_pos == Min(DOMAIN m.tape)
             max_pos == Max(DOMAIN m.tape)
             tape_start == IF min_pos <= m.head_position THEN min_pos ELSE m.head_position
             tape_end == (IF max_pos >= m.head_position THEN max_pos ELSE m.head_position) + 1
             tape_list == [k \in 1 .. (tape_end - tape_start) |->
                              TapeRead(m.tape, tape_start + k - 1).value]
             head_offset == m.head_position - tape_start
         IN  [ret |-> <<tape_list, head_offset, tape_start>>,
              tape |-> ReadWindow(m.tape, tape_start, tape_end)]

\* a, b, c = value succeeds only for a value of three elements
Unpacks(value) == Len(value) = 3
UnpackError(value) ==
    <<"ValueError", "not enough values to unpack", Len(value)>>

\* ------------------------------------------------------------ run, by parts
Halting(m) == m.current_state \in {accept_state, reject_state}

\* lines 84-87
begin_run(m, input) ==
    [initialize_tape(m, input) EXCEPT
        !.out = << <<"Starting", input, description>> >>,
        !.step_count = 0,
        !.pc = "loop",
        !.result = <<>>]

\* lines 90-92
step_limit(m) ==
    [m EXCEPT !.out = Append(@, <<"HaltedMaxSteps", max_steps>>),
              !.pc = "returned",
              !.result = <<"Halted (Max Steps)", m.current_state>>]

TransitionKey(m) == <<m.current_state, get_current_symbol(m).value>>

\* no_transition with step_count incremented on the way out
no_transition_counts_step(m) ==
    [m EXCEPT !.tape = get_current_symbol(m).tape,
              !.out = Append(@, <<"NoTransition", m.step_count, TransitionKey(m)>>),
              !.current_state = reject_state,
              !.step_count = @ + 1,
              !.pc = "final"]

\* lines 94-100
no_transition(m) ==
    [m EXCEPT !.tape = get_current_symbol(m).tape,
              !.out = Append(@, <<"NoTransition", m.step_count, TransitionKey(m)>>),
              !.current_state = reject_state,
              !.pc = "final"]

\* lines 94-119, the transition is present
apply_transition(m) ==
    LET rd == get_current_symbol(m)
        tr == delta[<<m.current_state, rd.value>>]
        next_state == tr[1]
        write_symbol == tr[2]
        move == tr[3]
        ts == get_tape_string([m EXCEPT !.tape = rd.tape])
    IN  IF ~Unpacks(ts.ret)
        THEN Raise([m EXCEPT !.tape = ts.tape], UnpackError(ts.ret))
        ELSE LET shown == [m EXCEPT
                    !.out = @ \o << <<"Step", m.step_count, m.current_state, ts.ret[1]>>,
                                    <<"Head", ts.ret[2]>> >>,
                    !.tape = TapeWrite(ts.tape, m.head_position, write_symbol)]
                 moved == move_head(shown, move)
             IN  IF moved.pc = "raised"
                 THEN moved
                 ELSE [moved EXCEPT !.current_state = next_state,
                                    !.step_count = @ + 1]

\* lines 122-132
finalize(m) ==
    LET ts == get_tape_string(m)
    IN  IF ~Unpacks(ts.ret)
        THEN Raise([m EXCEPT !.tape = ts.tape], UnpackError(ts.ret))
        ELSE [m EXCEPT
                !.tape = ts.tape,
                !.out = @ \o << <<"Finished", m.step_count>>,
                                <<"FinalState", m.current_state>>,
                                <<"FinalTape", ts.ret[1]>> >>,
                !.pc = "returned",
                !.result = IF m.current_state = accept_state THEN <<"Accepted">>
                           ELSE IF m.current_state = reject_state THEN <<"Rejected">>
                           ELSE <<"Unknown Halt State">>]

\* What run does next at position m.pc.
run_step(m) ==
    IF m.pc = "final" \/ (m.pc = "loop" /\ Halting(m)) THEN finalize(m)
    ELSE IF m.pc # "loop" THEN m
    ELSE IF m.step_count >= max_steps THEN step_limit(m)
    ELSE IF TransitionKey(m) \notin DOMAIN delta THEN no_transition(m)
    ELSE apply_transition(m)

\* ----------------------------------------------------------- state machine
Self ==
    [tape |-> tape, head_position |-> head_position, current_state |-> current_state,
     step_count |-> step_count, out |-> out, pc |-> pc, result |-> result]

Become(m) ==
    /\ tape' = m.tape
    /\ head_position' = m.head_position
    /\ current_state' = m.current_state
    /\ step_count' = m.step_count
    /\ out' = m.out
    /\ pc' = m.pc
    /\ result' = m.result

\* The instance after TuringMachine(d.states, ..., d.description).
Constructed(d) ==
    /\ states = d.states
    /\ alphabet = d.alphabet
    /\ delta = d.transition_function
    /\ start_state = d.start_state
    /\ accept_state = d.accept_state
    /\ reject_state = d.reject_state
    /\ blank_symbol = d.blank_symbol
    /\ description = d.description
    /\ max_steps = DefaultMaxSteps
    /\ tape = NewInstance(d.start_state).tape
    /\ head_position = NewInstance(d.start_state).head_position
    /\ current_state = NewInstance(d.start_state).current_state
    /\ input_string = <<>>
    /\ step_count = 0
    /\ out = <<>>
    /\ pc = "idle"
    /\ result = <<>>
    /\ fresh = NewInstance(d.start_state)
    /\ runs = 0
    /\ earlier = {}

Init ==
    \/ \E d \in Definitions : Constructed(d)
    \/ \E d \in ChainDefinitions : Constructed(d)

\* run(input_string, output_callback) is called; lines 84-87.
Run ==
    /\ pc \in {"idle", "returned", "raised"}
    /\ runs < MaxRuns
    /\ \E input \in (IF runs = 0 THEN Inputs ELSE ReuseInputs) :
        /\ input_string' = input
        /\ Become(begin_run(Self, input))
        /\ fresh' = begin_run(NewInstance(start_state), input)
    /\ runs' = runs + 1
    /\ earlier' = IF pc = "idle" THEN earlier ELSE earlier \cup {result[1]}
    /\ UNCHANGED defvars

\* StepLimit with the ceiling tested before the halting states
StepLimit_before_halting_check ==
    /\ pc = "loop"
    /\ step_count >= max_steps
    /\ Become(step_limit(Self))
    /\ fresh' = step_limit(fresh)
    /\ UNCHANGED <<defvars, input_string, runs, earlier>>

\* The step ceiling is reached; lines 90-92.
StepLimit ==
    /\ pc = "loop" /\ ~Halting(Self)
    /\ step_count >= max_steps
    /\ Become(step_limit(Self))
    /\ fresh' = run_step(fresh)
    /\ UNCHANGED <<defvars, input_string, runs, earlier>>

\* NoTransition with the missing key stored in delta (a lookup that inserts)
NoTransition_completes_delta ==
    /\ pc = "loop" /\ ~Halting(Self)
    /\ step_count < max_steps
    /\ TransitionKey(Self) \notin DOMAIN delta
    /\ Become(no_transition(Self))
    /\ fresh' = run_step(fresh)
    /\ delta' = (TransitionKey(Self) :> <<reject_state, TransitionKey(Self)[2], "N">>) @@ delta
    /\ UNCHANGED <<states, alphabet, start_state, accept_state, reject_state,
                   blank_symbol, description, max_steps, input_string, runs, earlier>>

\* No transition for (current_state, symbol); lines 94-100.
NoTransition ==
    /\ pc = "loop" /\ ~Halting(Self)
    /\ step_count < max_steps
    /\ TransitionKey(Self) \notin DOMAIN delta
    /\ Become(no_transition(Self))
    /\ fresh' = run_step(fresh)
    /\ UNCHANGED <<defvars, input_string, runs, earlier>>

\* One transition is applied; lines 94-119.
Transition ==
    /\ pc = "loop" /\ ~Halting(Self)
    /\ step_count < max_steps
    /\ TransitionKey(Self) \in DOMAIN delta
    /\ delta[TransitionKey(Self)][3] \in {"L", "R", "N"}
    /\ Become(apply_transition(Self))
    /\ fresh' = run_step(fresh)
    /\ UNCHANGED <<defvars, input_string, runs, earlier>>

\* The transition names a move _move_head does not know; lines 94-114, 59-61.
InvalidMove ==
    /\ pc = "loop" /\ ~Halting(Self)
    /\ step_count < max_steps
    /\ TransitionKey(Self) \in DOMAIN delta
    /\ delta[TransitionKey(Self)][3] \notin {"L", "R", "N"}
    /\ Become(apply_transition(Self))
    /\ fresh' = run_step(fresh)
    /\ UNCHANGED <<defvars, input_string, runs, earlier>>

\* The loop is left; lines 122-132.
Finalize ==
    /\ pc = "final" \/ (pc = "loop" /\ Halting(Self))
    /\ Become(finalize(Self))
    /\ fresh' = run_step(fresh)
    /\ UNCHANGED <<defvars, input_string, runs, earlier>>

Next == Run \/ StepLimit \/ NoTransition \/ Transition \/ InvalidMove \/ Finalize

Spec == Init /\ [][Next]_vars

\* ------------------------------------------------------------ properties
MovesValid == \A k \in DOMAIN delta : delta[k][3] \in {"L", "R", "N"}
Ended == pc \in {"returned", "raised"}
IsOver(w, A) == \A i \in 1 .. Len(w) : w[i] \in A
\* the tape string of the "Final Tape" line, the last line of a finished run
FinalTape == out[Len(out)][2]
HitNoTransition == \E i \in 1 .. Len(out) : out[i][1] = "NoTransition"

\* C1: for every definition (with moves L, R, N) and every input, run applies
\* at most max_steps transitions and returns Accepted, Rejected or Halted
\* (Max Steps); step_count never exceeds max_steps.
RunReturnsWithinMaxSteps ==
    /\ step_count <= max_steps
    /\ (Ended /\ MovesValid) =>
          /\ pc = "returned"
          /\ result[1] \in {"Accepted", "Rejected", "Halted (Max Steps)"}

\* C2: at every point of a run on an instance that has completed earlier
\* runs, the lines sent so far, the position and the outcome are those of
\* the same run on a newly constructed instance.
RunIndependentOfEarlierRuns ==
    /\ out = fresh.out
    /\ pc = fresh.pc
    /\ result = fresh.result

\* A second run has returned after a first one that ended Halted (Max Steps).
WitnessRunAfterHaltedRun ==
    /\ runs = 2 /\ pc = "returned" /\ step_count > 0
    /\ "Halted (Max Steps)" \in earlier

\* C3: a run that met a missing transition has current_state = reject_state
\* when it leaves the loop, and returns Rejected, never Accepted.
MissingTransitionRejects ==
    /\ pc = "final" => current_state = reject_state
    /\ (pc = "returned" /\ HitNoTransition) => result = <<"Rejected">>

\* C4: no run is possible on a definition whose accept_state equals its
\* reject_state or whose start, accept or reject state is not in states.
WellFormedDefinition ==
    /\ accept_state # reject_state
    /\ {start_state, accept_state, reject_state} \subseteq states
ConstructionValidates == runs > 0 => WellFormedDefinition

\* C5: a transition moves the head as its move names (N: not at all, R: +1,
\* L: -1), and no step of a run changes head_position by more than 1.
HeadMovesAsNamed ==
    [][ /\ (pc = "loop" /\ step_count' = step_count + 1) =>
             LET move == delta[TransitionKey(Self)][3]
             IN  /\ move = "N" => head_position' = head_position
                 /\ move = "R" => head_position' = head_position + 1
                 /\ move = "L" => head_position' = head_position - 1
        /\ pc \in {"loop", "final"} =>
             /\ head_position' - head_position <= 1
             /\ head_position - head_position' <= 1 ]_vars

\* The head has gone left of the origin and then stayed on an N move.
WitnessHeadLeftOfOrigin ==
    /\ description = tm_bin_increment.description
    /\ head_position = -1 /\ step_count = 6 /\ current_state = accept_state

\* C6: "Accepts L={a^n b^n}" on an input over {a, b} ends Accepted when the
\* input is a^n b^n with n >= 1 and Rejected otherwise, never anything else.
IsAnBn(w) ==
    \E n \in 1 .. Len(w) :
        /\ Len(w) = 2 * n
        /\ \A i \in 1 .. n : w[i] = "a" /\ w[n + i] = "b"
AnBnDecided ==
    (description = tm_anbn.description /\ IsOver(input_string, {"a", "b"}) /\ Ended) =>
        result = IF IsAnBn(input_string) THEN <<"Accepted">> ELSE <<"Rejected">>

WitnessAnBnAccepted ==
    /\ description = tm_anbn.description
    /\ input_string = <<"a", "a", "a", "a", "b", "b", "b", "b">>
    /\ result = <<"Accepted">>

\* the input with its first "1" replaced by "0"
FirstOne(w) == Min({i \in 1 .. Len(w) : w[i] = "1"})
HasOne(w) == \E i \in 1 .. Len(w) : w[i] = "1"
ReplaceFirstOne(w) == [w EXCEPT ![FirstOne(w)] = "0"]

ReplaceOneRun ==
    description = tm_replace_one.description /\ IsOver(input_string, {"0", "1"}) /\ Ended

\* C7 as stated: "Replace First '1' with '0'" ends Accepted exactly when the
\* input has a "1", and then reports the input with its first "1" replaced
\* by "0", of the input's length, as the final tape.
ReplaceOneFinalTapeIsInput ==
    ReplaceOneRun =>
        /\ result = IF HasOne(input_string) THEN <<"Accepted">> ELSE <<"Rejected">>
        /\ HasOne(input_string) =>
              /\ FinalTape = ReplaceFirstOne(input_string)
              /\ Len(FinalTape) = Len(input_string)

\* C7 amended: Accepted exactly when the input has a "1" (Rejected
\* otherwise); the final tape reported is the input with its first "1"
\* replaced by "0", followed by one blank symbol when that "1" was the last
\* character of the input (the head has moved one cell past it).
ReplaceOneFinalTape ==
    ReplaceOneRun =>
        /\ result = IF HasOne(input_string) THEN <<"Accepted">> ELSE <<"Rejected">>
        /\ HasOne(input_string) =>
              FinalTape = IF FirstOne(input_string) = Len(input_string)
                          THEN Append(ReplaceFirstOne(input_string), blank_symbol)
                          ELSE ReplaceFirstOne(input_string)

WitnessReplaceLastOne ==
    /\ description = tm_replace_one.description
    /\ input_string = <<"0", "0", "1">>
    /\ pc = "returned"
    /\ FinalTape = <<"0", "0", "0", "B">>

\* value of a string of binary digits, and the digits of a number
RECURSIVE Value(_)
Value(w) ==
    IF w = <<>> THEN 0
    ELSE 2 * Value(SubSeq(w, 1, Len(w) - 1)) + (IF w[Len(w)] = "1" THEN 1 ELSE 0)
RECURSIVE Digits(_, _)
Digits(v, width) ==
    IF width = 0 THEN <<>>
    ELSE Append(Digits(v \div 2, width - 1), IF v % 2 = 1 THEN "1" ELSE "0")
AllOnes(w) == \A i \in 1 .. Len(w) : w[i] = "1"
\* value(w) + 1 in as many digits as w has, one more when w is all ones
Incremented(w) ==
    Digits(Value(w) + 1, IF AllOnes(w) THEN Len(w) + 1 ELSE Len(w))

IncrementRun ==
    description = tm_bin_increment.description /\ IsOver(input_string, {"0", "1"}) /\ Ended

\* C8: the final tape "Binary Incrementer (+1)" reports is a string of
\* binary digits only, the numeral of the input's value plus one.
IncrementFinalTapeIsNumeral ==
    IncrementRun =>
        /\ result = <<"Accepted">>
        /\ IsOver(FinalTape, {"0", "1"})
        /\ Value(FinalTape) = Value(input_string) + 1

\* C9: "Binary Incrementer (+1)" ends Accepted, and the non-blank cells of
\* its final tape are one contiguous block spelling value(w) + 1: n digits
\* from cell 0, or "1" and n zeros from cell -1 when w is all ones.
IncrementNonBlankCells ==
    IncrementRun =>
        /\ result = <<"Accepted">>
        /\ LET cells == {i \in DOMAIN tape : tape[i] # blank_symbol}
               lo == Min(cells)
               hi == Max(cells)
           IN  /\ cells # {}
               /\ cells = lo .. hi
               /\ lo = IF AllOnes(input_string) THEN -1 ELSE 0
               /\ [k \in 1 .. (hi - lo + 1) |-> tape[lo + k - 1]] = Incremented(input_string)

WitnessIncrementCarriesOut ==
    /\ description = tm_bin_increment.description
    /\ input_string = <<"1", "1", "1">>
    /\ pc = "returned"
    /\ -1 \in DOMAIN tape /\ tape[-1] = "1" /\ tape[0] = "0" /\ tape[2] = "0"

\* C10: a run on a definition whose moves are L, R, N never fails with an
\* error; a run of zero transitions on the empty input ends with the single
\* blank symbol as its final tape.
RunNeverRaises ==
    /\ MovesValid => pc # "raised"
    /\ (MovesValid /\ Ended /\ step_count = 0 /\ input_string = <<>> /\ ~HitNoTransition) =>
          (pc = "returned" /\ FinalTape = <<blank_symbol>>)

\* ------------------------------------------- properties, second part
InRun == pc \in {"loop", "final"}
\* run is at the top of the loop and will look a transition up
LooksUp == pc = "loop" /\ ~Halting(Self) /\ step_count < max_steps
Found == LooksUp /\ TransitionKey(Self) \in DOMAIN delta
Missing == LooksUp /\ TransitionKey(Self) \notin DOMAIN delta
\* the transition found names a move move_head knows: it will be applied
Applies == Found /\ delta[TransitionKey(Self)][3] \in {"L", "R", "N"}
BadMove == Found /\ delta[TransitionKey(Self)][3] \notin {"L", "R", "N"}
IsHalted == result[1] = "Halted (Max Steps)"

\* C11: a run that returns from its final part returns Accepted exactly when
\* current_state = accept_state and Rejected exactly when current_state =
\* reject_state, and never "Unknown Halt State".
VerdictMatchesFinalState ==
    (pc = "returned" /\ ~IsHalted) =>
        /\ result = <<"Accepted">> <=> current_state = accept_state
        /\ result = <<"Rejected">> <=> current_state = reject_state
        /\ result # <<"Unknown Halt State">>

\* C12: current_state is a member of states in every state of every run
\* (stated for definitions whose start, accept and reject states are).
CurrentStateInStates == WellFormedDefinition => current_state \in states

\* C13: a transition naming a move other than L, R, N makes run raise the
\* invalid-move error at once: no verdict, the head, the state and the step
\* count as they were, and nothing more happens in that run.
InvalidMoveFailsFast ==
    [][ /\ BadMove =>
             /\ pc' = "raised"
             /\ result' = <<"ValueError", "Invalid move direction",
                            delta[TransitionKey(Self)][3]>>
             /\ head_position' = head_position
             /\ current_state' = current_state
             /\ step_count' = step_count
        /\ pc = "raised" => (pc' = "loop" /\ runs' = runs + 1) ]_vars

WitnessInvalidMoveRaised ==
    /\ pc = "raised"
    /\ result[2] = "Invalid move direction"
    /\ step_count = 1

\* C14: the iteration that finds no transition changes current_state only:
\* step_count, head_position and the tape mapping stay as they were.
MissingTransitionChangesStateOnly ==
    [][ (Missing /\ WellFormedDefinition /\ MovesValid) =>
            /\ current_state' = reject_state
            /\ step_count' = step_count
            /\ head_position' = head_position
            /\ tape' = tape ]_vars

\* C15: only the write of a transition adds a cell to the tape mapping
\* during a run: reading the symbol under the head and rendering the tape
\* leave the set of stored indices as it was.
ReadsDoNotInsert ==
    [][ InRun =>
          IF Found
          THEN DOMAIN tape' = DOMAIN tape \cup {head_position}
          ELSE DOMAIN tape' = DOMAIN tape ]_vars

\* C16: a rendering of a non-empty tape covers the cells from min(lowest
\* stored index, head) to max(highest stored index, head), and its head
\* offset is head_position - window start, inside the rendered string:
\* for the tape the run is about to render at its end, and for every pair
\* of step and head lines sent.
RenderingCoversHead ==
    /\ (Len(out) >= 2 /\ out[Len(out)][1] = "Head") =>
          /\ out[Len(out) - 1][1] = "Step"
          /\ 0 <= out[Len(out)][2]
          /\ out[Len(out)][2] < Len(out[Len(out) - 1][4])
    /\ ((pc = "final" \/ (pc = "loop" /\ Halting(Self))) /\ DOMAIN tape # {}) =>
          LET r == get_tape_string(Self).ret
              cells == DOMAIN tape \cup {head_position}
              lo == Min(cells)
              hi == Max(cells)
          IN  /\ Len(r[1]) = hi - lo + 1
              /\ \A k \in 1 .. Len(r[1]) :
                    r[1][k] = IF lo + k - 1 \in DOMAIN tape THEN tape[lo + k - 1]
                              ELSE blank_symbol
              /\ r[3] = lo
              /\ r[2] = head_position - lo
              /\ 0 <= r[2] /\ r[2] < Len(r[1])

\* The run ends with the head left of every stored cell.
WitnessHeadLeftOfStoredCells ==
    /\ pc = "loop" /\ Halting(Self)
    /\ DOMAIN tape # {}
    /\ head_position < Min(DOMAIN tape)

\* the lines a step adds to out, and how many of them show a step
NewLines == SubSeq(out', Len(out) + 1, Len(out'))
NewStepLines == Cardinality({i \in 1 .. Len(NewLines) : NewLines[i][1] = "Step"})

\* C17: step_count is 0 when a run starts, grows by exactly 1 with every
\* transition applied (a write, a move and a state update) and by nothing
\* else; it grows as the steps shown do, and the count the run reports at
\* its end is step_count.
StepCountCountsTransitions ==
    [][ /\ (~InRun /\ pc' = "loop") => (step_count' = 0 /\ Len(out') = 1)
        /\ InRun =>
             /\ SubSeq(out', 1, Len(out)) = out
             /\ IF Applies
                THEN /\ step_count' = step_count + 1
                     /\ tape'[head_position] = delta[TransitionKey(Self)][2]
                     /\ current_state' = delta[TransitionKey(Self)][1]
                ELSE step_count' = step_count
             /\ pc' # "raised" => step_count' = step_count + NewStepLines
             /\ (pc' = "returned" /\ ~IsHalted') =>
                   NewLines[1] = <<"Finished", step_count>> ]_vars

\* A run has returned after a missing transition with steps behind it.
WitnessStepsThenMissing ==
    /\ pc = "returned" /\ HitNoTransition
    /\ step_count = 3
    /\ out[Len(out) - 2] = <<"Finished", 3>>

\* C18: run returns Halted (Max Steps) exactly when max_steps transitions
\* have been applied and current_state is neither halting state, also when
\* no transition exists for it; the verdict names that state.  A run that
\* enters a halting state with its max_steps-th transition returns
\* Accepted or Rejected.
HaltedExactlyAtCeiling ==
    pc = "returned" =>
        /\ IsHalted <=> (step_count = max_steps /\ ~Halting(Self))
        /\ IsHalted => result = <<"Halted (Max Steps)", current_state>>
        /\ ~IsHalted => result = IF current_state = accept_state
                                 THEN <<"Accepted">> ELSE <<"Rejected">>

\* The max_steps-th transition entered the accept state.
WitnessAcceptedOnLastStep ==
    /\ pc = "returned"
    /\ step_count = max_steps
    /\ result = <<"Accepted">>

\* the number of step lines sent so far
StepLines == Cardinality({i \in 1 .. Len(out) : out[i][1] = "Step"})
\* the lines of out after its first n
Rest(n) == SubSeq(out, n + 1, Len(out))
Kinds(lines) == [i \in 1 .. Len(lines) |-> lines[i][1]]

\* the trace is the header, then the step and head lines of steps 0, 1, ...
\* in order, then the lines named by ending
TraceIs(ending) ==
    LET n == StepLines
    IN  /\ Len(out) >= 2 * n + 1
        /\ out[1] = <<"Starting", input_string, description>>
        /\ \A k \in 1 .. n :
              /\ out[2 * k][1] = "Step" /\ out[2 * k][2] = k - 1
              /\ out[2 * k + 1][1] = "Head"
        /\ Kinds(Rest(2 * n + 1)) \in ending

Finish == <<"Finished", "FinalState", "FinalTape">>

\* C19: the trace of a run (on a definition with moves L, R, N) is the
\* header, then the step lines 0, 1, 2, ... each showing the state and the
\* tape before its write, and it ends with the halt-by-limit line or with
\* the finish lines, one of the two and nothing after.
TraceOrdered ==
    [][ /\ (MovesValid /\ InRun)' => TraceIs({<<>>, <<"NoTransition">>})'
        /\ (MovesValid /\ Ended)' =>
              /\ TraceIs({<<"HaltedMaxSteps">>, Finish, <<"NoTransition">> \o Finish})'
              /\ (Kinds(Rest(Len(out) - 1)) = <<"HaltedMaxSteps">>)' <=> IsHalted'
        /\ Applies =>
              /\ out'[Len(out') - 1] =
                    <<"Step", step_count, current_state,
                      get_tape_string([Self EXCEPT !.tape = get_current_symbol(Self).tape]).ret[1]>>
              /\ Len(out') = Len(out) + 2 ]_vars

\* C20: no step of run changes states, alphabet, the transition mapping,
\* start_state, accept_state, reject_state, blank_symbol, description or
\* max_steps: they keep the values the constructor gave them.
DefinitionUnchanged == [][UNCHANGED defvars]_vars

\* A second run has returned after a missing transition.
WitnessSecondRunRejected ==
    /\ runs = 2 /\ pc = "returned"
    /\ HitNoTransition
    /\ earlier # {}

====
